---------------------------- MODULE Spec2Model ----------------------------
(***************************************************************************)
(* Browser-session lifecycle and coordination engine of the Ariba          *)
(* scraping service: the session registry (active_drivers), the usage gate *)
(* (driver_in_use), the keep-alive task (refresh_driver_periodically), the *)
(* login / close / download request handlers of app/api/v1/endpoints.py,   *)
(* the lifespan of app/main.py and the download workflow descarga_db of    *)
(* app/scraping/ariba_scraper.py.                                          *)
(*                                                                         *)
(* Granularity.  The handlers are asyncio coroutines on one event loop: a  *)
(* step of the model is the code a coroutine runs between two awaits.      *)
(* descarga_db runs on the single worker thread of the ThreadPoolExecutor  *)
(* and is concurrent with the event loop.                                  *)
(***************************************************************************)
EXTENDS Integers, Sequences, FiniteSets, TLC

\* The two session names that have a login endpoint and stored credentials.
Names == {"driver", "driver_m"}

\* Bounds of the model.
MaxDrivers == 2      \* webdriver objects alive or referenced at the same time
MaxTasks == 2        \* keep-alive task objects alive or referenced at the same time
MaxDownloads == 2    \* download requests in flight at the same time
MaxCloses == 1       \* close requests suspended at their await at the same time
CatalogLen == 3      \* entries of the download catalog (lista_csv, lista_rutas)

DriverIds == 1..MaxDrivers
TaskIds == 1..MaxTasks
CloseIds == 1..MaxCloses

VARIABLES
    phase,           \* lifespan: "starting", "serving", "stopped"
    lifespan_tasks,  \* main.py `tasks`: names for which lifespan created a task
    active_drivers,  \* endpoints.active_drivers: name -> driver id, 0 = key absent
    driver_in_use,   \* endpoints.driver_in_use
    refresh_task,    \* endpoints.refresh_task: task id, 0 = None
    drivers,         \* every webdriver object: "none", "active", "quit", "quit_failed"
    tasks,           \* every keep-alive task: its position, name, local driver
    downloads,       \* the descargar_archivos_ariba handlers past their gate
                     \* acquisition, in the order they submitted their work
                     \* item to the executor (max_workers = 1, FIFO)
    closes,          \* the close_driver handlers
    ev,              \* history: the handler completion or keep-alive step
                     \* taken last; any other step clears it
    \* one run of descarga_db(driver, path)
    wpc,             \* position in descarga_db
    k,               \* position of the for loop in lista_csv (nombre = lista_csv[k])
    i,               \* the index variable i (0-based, as in the source)
    path_archivos,   \* the file the current iteration checks (catalog index)
    validador,       \* the loop variable of the retry loop
    archivos_descargados,
    archivos_omitidos,
    disk,            \* target directory: state of each catalog file
    requested,       \* labels whose download link was clicked, file not landed yet
    omitted,         \* history: loop positions skipped by the freshness check
    attempted,       \* history: <<label, file>> pairs a navigation was started for
    checked,         \* history: per entry, the state its own target file had
                     \* when the for loop decided about its label ("none" before)
    confirmed,       \* history: entries whose existence check after the back
                     \* navigation succeeded
    escaped,         \* history: an exception left the retry loop
    \* one call of a login handler, followed through login_ariba
    credentials,     \* AribaCredentials.CREDENTIALS: the names that have an entry
    lg,              \* the login handler in progress: position, name, the local
                     \* `driver` of login_ariba, what login_ariba returned
    \* user accounts and access tokens
    users,           \* table `users`: the rows in id order
    now,             \* the clock (datetime.utcnow()), in minutes
    tokens,          \* the access tokens issued so far
    uev              \* history: the last account request and its response

lifevars == <<phase, lifespan_tasks, active_drivers, driver_in_use, refresh_task,
              drivers, tasks, downloads, closes, ev>>

wfvars == <<wpc, k, i, path_archivos, validador, archivos_descargados,
            archivos_omitidos, disk, requested, omitted, attempted, checked,
            confirmed, escaped>>

loginvars == <<credentials, lg>>

uservars == <<users, now, tokens, uev>>

vars == <<lifevars, wfvars, loginvars, uservars>>

----------------------------------------------------------------------------
\* Helpers

NoTask == [st |-> "unborn", name |-> "driver", drv |-> 0, cancel |-> FALSE]

\* Value of the history variable: operation, session name, object id, result.
Ev(op, name, id, res) == [op |-> op, name |-> name, id |-> id, res |-> res]

\* A step that no property observes clears the history variable.
NoEv == Ev("none", "", 0, "")

\* asyncio.Task.done(): true only once the coroutine has exited.
TaskDone(t) == tasks[t].st = "done"

\* A task object exists and its coroutine has not exited.
TaskAlive(t) == tasks[t].st \notin {"unborn", "done"}

\* Object identity: an identifier is given to a new object once the object
\* that had it is garbage (finished and referenced by nothing).
DriverReferenced(d) ==
    \/ \E n \in Names : active_drivers[n] = d
    \/ \E t \in TaskIds : tasks[t].drv = d
    \/ \E p \in DOMAIN downloads : downloads[p].drv = d
    \/ lg.drv = d

TaskReferenced(t) ==
    \/ refresh_task = t
    \/ t \in lifespan_tasks
    \/ \E c \in CloseIds : closes[c].task = t

FreshDrivers ==
    {d \in DriverIds : drivers[d] = "none" \/ (drivers[d] = "quit" /\ ~DriverReferenced(d))}

FreshTasks ==
    {t \in TaskIds : tasks[t].st = "unborn" \/ (tasks[t].st = "done" /\ ~TaskReferenced(t))}

Min(S) == CHOOSE x \in S : \A y \in S : x <= y

\* The work items the worker thread has not finished, oldest first.
Pending == SelectSeq(downloads, LAMBDA x : x.pc \in {"queued", "running"})

RemoveAt(seq, p) == SubSeq(seq, 1, p - 1) \o SubSeq(seq, p + 1, Len(seq))

\* Position in downloads of the oldest unfinished work item.
FirstPending == Min({p \in DOMAIN downloads : downloads[p].pc \in {"queued", "running"}})

IdleClose(c) == closes[c].pc = "idle"

----------------------------------------------------------------------------
\* Initial state: the module globals of endpoints.py as written.

InitLife ==
    /\ phase = "starting"
    /\ lifespan_tasks = {}
    /\ active_drivers = [n \in Names |-> 0]
    /\ driver_in_use = FALSE
    /\ refresh_task = 0
    /\ drivers = [d \in DriverIds |-> "none"]
    /\ tasks = [t \in TaskIds |-> NoTask]
    /\ downloads = <<>>
    /\ closes = [c \in CloseIds |-> [pc |-> "idle", name |-> "driver", task |-> 0]]
    /\ ev = NoEv

\* No run of descarga_db is being followed step by step.
WorkflowIdle ==
    /\ wpc = "idle"
    /\ k = 1
    /\ i = 0
    /\ path_archivos = 0
    /\ validador = "True"
    /\ archivos_descargados = 0
    /\ archivos_omitidos = 0
    /\ disk = [f \in 1..CatalogLen |-> "absent"]
    /\ requested = {}
    /\ omitted = {}
    /\ attempted = {}
    /\ checked = [x \in 1..CatalogLen |-> "none"]
    /\ confirmed = {}
    /\ escaped = FALSE

\* No login handler is in progress.
NoLogin == [pc |-> "idle", name |-> "driver", drv |-> 0, marker |-> "",
            ret |-> 0, success |-> FALSE]

\* The credential table as written: both names have an entry.
LoginIdle ==
    /\ credentials = Names
    /\ lg = NoLogin

\* No token, and no request has been made.
NoToken == [sub |-> "", exp |-> 0, sig |-> "none"]

NoUev == [op |-> "none", email |-> "", pw |-> "", code |-> "", status |-> 0,
          tok |-> NoToken]

\* The table is empty and no token has been issued.
UsersIdle ==
    /\ users = <<>>
    /\ now = 0
    /\ tokens = {}
    /\ uev = NoUev

Init == InitLife /\ WorkflowIdle /\ LoginIdle /\ UsersIdle


----------------------------------------------------------------------------
\* Keep-alive task: refresh_driver_periodically(driver_name, interval)

\* Faulty variant of TickDecision: the usage gate is not consulted.
TickDecisionIgnoringGate(name) ==
    IF active_drivers[name] = 0 THEN "absent" ELSE "go"

\* What the iteration that follows the interval sleep decides: the registry
\* is consulted first, then the usage gate.
TickDecision(name) ==
    IF active_drivers[name] = 0 THEN "absent"
    ELSE IF driver_in_use THEN "busy"
    ELSE "go"

\* driver.get(url) on driver d: a driver that was quit always raises, a live
\* one raises when the environment says so (ok = FALSE).
GetSucceeds(d, ok) == drivers[d] # "quit" /\ ok

\* Faulty variant of OnAbsent: the task ends when its name is not registered.
OnAbsentExit == "done"

\* `continue` after the registry test: the task goes to the next interval sleep.
OnAbsent == "sleep"

\* Faulty variant of OnNavigationError: the exception ends the task.
OnNavigationErrorExit == "done"

\* `except Exception`: the error is logged and the task sleeps 60 seconds.
OnNavigationError == "backoff"

\* The loop iteration after `await asyncio.sleep(interval)` up to the next await.
Tick(t, ok) ==
    /\ phase # "starting"
    /\ tasks[t].st = "sleep"
    /\ ~tasks[t].cancel
    /\ LET dec == TickDecision(tasks[t].name)
           d == active_drivers[tasks[t].name]
       IN IF dec # "go"
          THEN /\ tasks' = [tasks EXCEPT ![t].st = IF dec = "absent" THEN OnAbsent
                                                    ELSE "sleep"]
               /\ ev' = Ev("tick", tasks[t].name, t, dec)
          ELSE IF GetSucceeds(d, ok)
               THEN /\ tasks' = [tasks EXCEPT ![t].st = "wait1", ![t].drv = d]
                    /\ ev' = Ev("tick", tasks[t].name, t, "go")
               ELSE /\ tasks' = [tasks EXCEPT ![t].st = OnNavigationError]
                    /\ ev' = Ev("tick", tasks[t].name, t, "error")
    /\ UNCHANGED <<wfvars, loginvars, uservars>>
    /\ UNCHANGED <<phase, lifespan_tasks, active_drivers, driver_in_use,
                   refresh_task, drivers, downloads, closes>>

\* Faulty variant of MidTickDecision: the usage gate is read again before the
\* second navigation.
MidTickDecisionObservingGate == IF driver_in_use THEN "busy" ELSE "go"

\* Between the two navigations nothing is tested: the second driver.get
\* follows the sleep directly.
MidTickDecision == "go"

\* After the first `await asyncio.sleep(2)`: the second driver.get, on the
\* local variable `driver` read at the start of the iteration.
Nav2(t, ok) ==
    /\ tasks[t].st = "wait1"
    /\ ~tasks[t].cancel
    /\ IF MidTickDecision # "go"
       THEN /\ tasks' = [tasks EXCEPT ![t].st = "sleep", ![t].drv = 0]
            /\ ev' = Ev("nav2", tasks[t].name, t, MidTickDecision)
       ELSE IF GetSucceeds(tasks[t].drv, ok)
       THEN /\ tasks' = [tasks EXCEPT ![t].st = "wait2", ![t].drv = 0]
            /\ ev' = Ev("nav2", tasks[t].name, t, "ok")
       ELSE /\ tasks' = [tasks EXCEPT ![t].st = OnNavigationError, ![t].drv = 0]
            /\ ev' = Ev("nav2", tasks[t].name, t, "error")
    /\ UNCHANGED <<wfvars, loginvars, uservars>>
    /\ UNCHANGED <<phase, lifespan_tasks, active_drivers, driver_in_use,
                   refresh_task, drivers, downloads, closes>>

\* After the second `await asyncio.sleep(2)`: back to the interval sleep.
NavDone(t) ==
    /\ tasks[t].st = "wait2"
    /\ ~tasks[t].cancel
    /\ tasks' = [tasks EXCEPT ![t].st = "sleep"]
    /\ ev' = NoEv
    /\ UNCHANGED <<wfvars, loginvars, uservars>>
    /\ UNCHANGED <<phase, lifespan_tasks, active_drivers, driver_in_use,
                   refresh_task, drivers, downloads, closes>>

\* Faulty variant of AfterBackoff: the except branch ends the task.
AfterBackoffExit == "done"

\* The except branch is inside `while True`: after its sleep the loop runs
\* again, from the interval sleep.
AfterBackoff == "sleep"

\* After `await asyncio.sleep(60)` in the except branch: back to the loop.
BackoffDone(t) ==
    /\ tasks[t].st = "backoff"
    /\ ~tasks[t].cancel
    /\ tasks' = [tasks EXCEPT ![t].st = AfterBackoff]
    /\ ev' = Ev("resume", tasks[t].name, t, "")
    /\ UNCHANGED <<wfvars, loginvars, uservars>>
    /\ UNCHANGED <<phase, lifespan_tasks, active_drivers, driver_in_use,
                   refresh_task, drivers, downloads, closes>>

\* Task.cancel() was called: CancelledError is thrown into the coroutine at
\* the await it is suspended on.  `except Exception` does not catch it, so
\* the coroutine exits and the task is done.
TaskCancelled(t) ==
    /\ TaskAlive(t)
    /\ tasks[t].cancel
    /\ tasks' = [tasks EXCEPT ![t] = [NoTask EXCEPT !.st = "done",
                                                      !.name = tasks[t].name]]
    /\ ev' = NoEv
    /\ UNCHANGED <<wfvars, loginvars, uservars>>
    /\ UNCHANGED <<phase, lifespan_tasks, active_drivers, driver_in_use,
                   refresh_task, drivers, downloads, closes>>

----------------------------------------------------------------------------
\* Login: login_ariba_driver / login_ariba_driver_m

LoginOutcomes == {"ok", "bad_marker", "exception", "no_driver"}

\* login_ariba: what it returns and what it did to the driver it created.
\* "no_driver": setup_driver itself raised, no driver object exists.
login_ariba(outcome) ==
    [success |-> outcome = "ok",
     created |-> outcome # "no_driver",
     quit    |-> outcome \in {"bad_marker", "exception"}]

\* Faulty variant of ShouldStartTask: a finished task is not replaced.
ShouldStartTaskOnlyIfNone == refresh_task = 0

\* `if refresh_task is None or refresh_task.done()`
ShouldStartTask == refresh_task = 0 \/ TaskDone(refresh_task)

\* The whole handler: login_ariba is a synchronous call, the handler has no
\* await.
Login(n, outcome) ==
    /\ phase = "serving"
    /\ IF ~login_ariba(outcome).success
       THEN \* HTTPException(500); a driver that was created has been quit
            \* inside login_ariba and is referenced by nothing
            UNCHANGED <<drivers, active_drivers, tasks, refresh_task>>
       ELSE /\ FreshDrivers # {}
            /\ LET d == Min(FreshDrivers)
               IN /\ drivers' = [drivers EXCEPT ![d] = "active"]
                  /\ active_drivers' = [active_drivers EXCEPT ![n] = d]
            /\ IF ShouldStartTask
               THEN /\ FreshTasks # {}
                    /\ LET t == Min(FreshTasks)
                       IN /\ tasks' = [tasks EXCEPT ![t] =
                                 [NoTask EXCEPT !.st = "sleep", !.name = n]]
                          /\ refresh_task' = t
               ELSE UNCHANGED <<tasks, refresh_task>>
    /\ ev' = IF login_ariba(outcome).success THEN Ev("login", n, 0, "ok") ELSE NoEv
    /\ UNCHANGED <<wfvars, loginvars, uservars>>
    /\ UNCHANGED <<phase, lifespan_tasks, driver_in_use, downloads, closes>>

----------------------------------------------------------------------------
\* Close: close_driver(driver_name)

\* Up to `await refresh_task` (or to the return when nothing is awaited).
\* raises: whether driver.quit() raises.
CloseBegin(c, n, raises) ==
    /\ phase = "serving"
    /\ IdleClose(c)
    /\ \A c2 \in CloseIds : IdleClose(c2) => c <= c2
    /\ LET d == active_drivers[n]
       IN IF d # 0 /\ raises
          THEN \* quit raised: HTTPException(500) leaves the handler here
               /\ drivers' = [drivers EXCEPT ![d] = "quit_failed"]
               /\ ev' = Ev("close_500", n, d, "")
               /\ UNCHANGED <<active_drivers, tasks, closes>>
          ELSE /\ drivers' = IF d # 0 THEN [drivers EXCEPT ![d] = "quit"] ELSE drivers
               /\ active_drivers' = [active_drivers EXCEPT ![n] = 0]
               /\ IF refresh_task # 0 /\ ~TaskDone(refresh_task)
                  THEN /\ tasks' = [tasks EXCEPT ![refresh_task].cancel = TRUE]
                       /\ closes' = [closes EXCEPT ![c] =
                              [pc |-> "awaiting", name |-> n, task |-> refresh_task]]
                       /\ ev' = Ev("close_await", n, d, "")
                  ELSE /\ ev' = Ev("close_return", n, d, "")
                       /\ UNCHANGED <<tasks, closes>>
    /\ UNCHANGED <<wfvars, loginvars, uservars>>
    /\ UNCHANGED <<phase, lifespan_tasks, driver_in_use, refresh_task, downloads>>

\* The awaited task is done: CancelledError is swallowed, the global is reset
\* and the handler returns.
CloseResume(c) ==
    /\ closes[c].pc = "awaiting"
    /\ TaskDone(closes[c].task)
    /\ refresh_task' = 0
    /\ closes' = [closes EXCEPT ![c] = [pc |-> "idle", name |-> "driver", task |-> 0]]
    /\ ev' = Ev("close_return", closes[c].name, 0, "")
    /\ UNCHANGED <<wfvars, loginvars, uservars>>
    /\ UNCHANGED <<phase, lifespan_tasks, active_drivers, driver_in_use, drivers,
                   tasks, downloads>>

----------------------------------------------------------------------------
\* Download: descargar_archivos_ariba

\* set_driver_in_use(True)
GateOnEntry == TRUE

\* Faulty variant of GateOnExit: the gate is released on the success path only.
GateOnExitSuccessOnly(success) == IF success THEN FALSE ELSE driver_in_use

\* The `finally` of the handler: set_driver_in_use(False) whatever the result.
GateOnExit(success) == FALSE

\* `if driver_name not in active_drivers: raise HTTPException(400)`
DownloadRejected ==
    /\ phase = "serving"
    /\ active_drivers["driver"] = 0
    /\ ev' = NoEv
    /\ UNCHANGED <<wfvars, loginvars, uservars>>
    /\ UNCHANGED <<phase, lifespan_tasks, active_drivers, driver_in_use, refresh_task,
                   drivers, tasks, downloads, closes>>

\* Up to `await loop.run_in_executor(...)`.
DownloadBegin ==
    /\ phase = "serving"
    /\ Len(downloads) < MaxDownloads
    /\ active_drivers["driver"] # 0
    /\ driver_in_use' = GateOnEntry
    /\ downloads' = Append(downloads, [pc |-> "queued", drv |-> active_drivers["driver"]])
    /\ ev' = NoEv
    /\ UNCHANGED <<wfvars, loginvars, uservars>>
    /\ UNCHANGED <<phase, lifespan_tasks, active_drivers, refresh_task, drivers,
                   tasks, closes>>

\* The worker thread takes the oldest work item and calls descarga_db.
ExecStart ==
    /\ Pending # <<>>
    /\ Head(Pending).pc = "queued"
    /\ downloads' = [downloads EXCEPT ![FirstPending].pc = "running"]
    /\ ev' = NoEv
    /\ UNCHANGED <<wfvars, loginvars, uservars>>
    /\ UNCHANGED <<phase, lifespan_tasks, active_drivers, driver_in_use, refresh_task,
                   drivers, tasks, closes>>

\* descarga_db returns (True, msg), or an exception raised mid-run is caught
\* by its outer handler and it returns (False, msg).
ExecEnd(success) ==
    /\ Pending # <<>>
    /\ Head(Pending).pc = "running"
    /\ downloads' = [downloads EXCEPT ![FirstPending].pc =
                        IF success THEN "done_ok" ELSE "done_err"]
    /\ ev' = NoEv
    /\ UNCHANGED <<wfvars, loginvars, uservars>>
    /\ UNCHANGED <<phase, lifespan_tasks, active_drivers, driver_in_use, refresh_task,
                   drivers, tasks, closes>>

\* The await returns in handler p: the result is turned into the response
\* (the dict, or HTTPException(500)), and the finally clause runs on the way
\* out.
DownloadResume(p) ==
    /\ p \in DOMAIN downloads
    /\ downloads[p].pc \in {"done_ok", "done_err"}
    /\ LET success == downloads[p].pc = "done_ok"
       IN /\ driver_in_use' = GateOnExit(success)
          /\ ev' = Ev("download_return", "driver", 0, IF success THEN "ok" ELSE "500")
    /\ downloads' = RemoveAt(downloads, p)
    /\ UNCHANGED <<wfvars, loginvars, uservars>>
    /\ UNCHANGED <<phase, lifespan_tasks, active_drivers, refresh_task, drivers,
                   tasks, closes>>

----------------------------------------------------------------------------
\* Lifespan: startup and shutdown

\* Before `yield`: one task per name found in active_drivers.
Startup ==
    /\ phase = "starting"
    /\ LET reg == {n \in Names : active_drivers[n] # 0}
           id(n) == IF n = "driver" THEN 1 ELSE Cardinality(reg)
       IN /\ lifespan_tasks' = {id(n) : n \in reg}
          /\ tasks' = [t \in TaskIds |->
                 IF \E n \in reg : id(n) = t
                 THEN [NoTask EXCEPT !.st = "sleep",
                                     !.name = CHOOSE n \in reg : id(n) = t]
                 ELSE tasks[t]]
    /\ phase' = "serving"
    /\ ev' = NoEv
    /\ UNCHANGED <<wfvars, loginvars, uservars>>
    /\ UNCHANGED <<active_drivers, driver_in_use, refresh_task, drivers, downloads,
                   closes>>

\* The finally clause, once the server has drained its requests: the tasks
\* of the local list are cancelled and awaited, then every registered driver
\* is quit; a quit that raises is logged and the loop goes on.
\* failing: the registered names whose driver.quit() raises.
Shutdown(failing) ==
    /\ phase = "serving"
    /\ downloads = <<>>
    /\ \A c \in CloseIds : IdleClose(c)
    /\ failing \subseteq {n \in Names : active_drivers[n] # 0}
    /\ tasks' = [t \in TaskIds |->
           IF t \in lifespan_tasks /\ TaskAlive(t)
           THEN [NoTask EXCEPT !.st = "done", !.name = tasks[t].name]
           ELSE tasks[t]]
    /\ drivers' = [d \in DriverIds |->
           IF \E n \in Names : active_drivers[n] = d
           THEN IF \E n \in failing : active_drivers[n] = d
                THEN "quit_failed" ELSE "quit"
           ELSE drivers[d]]
    /\ phase' = "stopped"
    /\ ev' = Ev("shutdown", "", 0, "")
    /\ UNCHANGED <<wfvars, loginvars, uservars>>
    /\ UNCHANGED <<lifespan_tasks, active_drivers, driver_in_use, refresh_task,
                   downloads, closes>>

----------------------------------------------------------------------------
Next ==
    \/ Startup
    \/ \E n \in Names, o \in LoginOutcomes : Login(n, o)
    \/ \E c \in CloseIds, n \in Names, raises \in BOOLEAN : CloseBegin(c, n, raises)
    \/ \E c \in CloseIds : CloseResume(c)
    \/ DownloadRejected
    \/ DownloadBegin
    \/ ExecStart
    \/ \E success \in BOOLEAN : ExecEnd(success)
    \/ \E p \in 1..MaxDownloads : DownloadResume(p)
    \/ \E t \in TaskIds, ok \in BOOLEAN : Tick(t, ok)
    \/ \E t \in TaskIds, ok \in BOOLEAN : Nav2(t, ok)
    \/ \E t \in TaskIds : NavDone(t)
    \/ \E t \in TaskIds : BackoffDone(t)
    \/ \E t \in TaskIds : TaskCancelled(t)
    \/ \E failing \in SUBSET Names : Shutdown(failing)

Spec == Init /\ [][Next]_vars

\* The event loop runs: a coroutine whose sleep has expired is resumed.  A
\* task's step is disabled only by the task's own steps, by its cancellation
\* or, for the tick, before the server is up.
KeepAliveStep(t) ==
    \/ \E ok \in BOOLEAN : Tick(t, ok)
    \/ \E ok \in BOOLEAN : Nav2(t, ok)
    \/ NavDone(t)
    \/ BackoffDone(t)
    \/ TaskCancelled(t)

\* The requests of Next with one download request in flight at a time, and
\* the steps of the keep-alive tasks.
NextLive ==
    \/ Startup
    \/ \E n \in Names, o \in LoginOutcomes : Login(n, o)
    \/ \E c \in CloseIds, n \in Names, raises \in BOOLEAN : CloseBegin(c, n, raises)
    \/ \E c \in CloseIds : CloseResume(c)
    \/ DownloadRejected
    \/ (downloads = <<>> /\ DownloadBegin)
    \/ ExecStart
    \/ \E success \in BOOLEAN : ExecEnd(success)
    \/ \E p \in 1..MaxDownloads : DownloadResume(p)
    \/ \E t \in TaskIds : KeepAliveStep(t)
    \/ \E failing \in SUBSET Names : Shutdown(failing)

SpecLive == Init /\ [][NextLive]_vars /\ \A t \in TaskIds : WF_vars(KeepAliveStep(t))

----------------------------------------------------------------------------
\* Download workflow: descarga_db(driver, path), followed statement by
\* statement.  The catalog is two positionally coupled lists; an entry is
\* named by its catalog index, so lista_csv[x] = x is "the label of entry x"
\* and lista_rutas[x] = x is "the file name of entry x".

lista_csv == [x \in 1..CatalogLen |-> x]
lista_rutas == [x \in 1..CatalogLen |-> x]

FileStates == {"absent", "stale", "fresh"}

\* archivo_es_de_hoy(file_path): exists and its modification date is today.
archivo_es_de_hoy(f) == disk[f] = "fresh"

\* os.path.isfile / os.path.exists
FileExists(f) == disk[f] # "absent"

\* Python truth value of validador: False and the empty string are falsy.
Truthy(v) == v \notin {"False", ""}

\* What get_attribute("innerText") of the indicator button can be.
InnerTexts == {"Completado", "Otro", ""}

\* A run starts: the globals of the run, and any content of the directory.
InitDescarga ==
    /\ InitLife
    /\ LoginIdle
    /\ UsersIdle
    /\ wpc = "for"
    /\ k = 1
    /\ i = 0
    /\ path_archivos = 0
    /\ validador = "True"
    /\ archivos_descargados = 0
    /\ archivos_omitidos = 0
    /\ disk \in [1..CatalogLen -> FileStates]
    /\ requested = {}
    /\ omitted = {}
    /\ attempted = {}
    /\ checked = [x \in 1..CatalogLen |-> "none"]
    /\ confirmed = {}
    /\ escaped = FALSE

\* Top of `for nombre in lista_csv`: the freshness check of
\* lista_rutas[i], then either the skip or the entry into the retry loop;
\* after the last entry, `return True, mensaje`.
ForTop ==
    /\ wpc = "for"
    /\ IF k > CatalogLen
       THEN /\ wpc' = "done"
            /\ UNCHANGED <<k, i, path_archivos, validador, archivos_descargados,
                           archivos_omitidos, omitted, checked>>
       ELSE LET f == lista_rutas[i + 1]
            IN /\ path_archivos' = f
               /\ checked' = [checked EXCEPT ![k] = disk[lista_rutas[k]]]
               /\ IF archivo_es_de_hoy(f)
                  THEN /\ archivos_omitidos' = archivos_omitidos + 1
                       /\ i' = i + 1
                       /\ k' = k + 1
                       /\ omitted' = omitted \cup {k}
                       /\ UNCHANGED <<wpc, validador, archivos_descargados>>
                  ELSE /\ archivos_descargados' = archivos_descargados + 1
                       /\ validador' = "True"
                       /\ wpc' = "while"
                       /\ UNCHANGED <<k, i, archivos_omitidos, omitted>>
    /\ UNCHANGED <<disk, requested, attempted, confirmed, escaped>>
    /\ UNCHANGED <<lifevars, loginvars, uservars>>

\* `while validador:` -- the retry loop goes on while validador is truthy;
\* when it is not, the for loop takes the next label.
WhileTop ==
    /\ wpc = "while"
    /\ IF Truthy(validador)
       THEN wpc' = "navigate" /\ UNCHANGED k
       ELSE wpc' = "for" /\ k' = k + 1
    /\ UNCHANGED <<i, path_archivos, validador, archivos_descargados,
                   archivos_omitidos, disk, requested, omitted, attempted,
                   checked, confirmed, escaped>>
    /\ UNCHANGED <<lifevars, loginvars, uservars>>

\* The try block up to the click on the download link: the container screen
\* (primary locator, then the fallbacks), the entry located by its label
\* nombre = lista_csv[k], the download link.  ok = FALSE: one of the waits
\* raised, control goes to the except branch.
Navigate(ok) ==
    /\ wpc = "navigate"
    /\ attempted' = attempted \cup {<<lista_csv[k], path_archivos>>}
    /\ IF ok
       THEN /\ requested' = requested \cup {lista_csv[k]}
            /\ wpc' = "poll"
       ELSE /\ wpc' = "recover"
            /\ UNCHANGED requested
    /\ UNCHANGED <<k, i, path_archivos, validador, archivos_descargados,
                   archivos_omitidos, disk, omitted, checked, confirmed, escaped>>
    /\ UNCHANGED <<lifevars, loginvars, uservars>>

\* `while not os.path.isfile(path_archivos): time.sleep(1)` is left when the
\* file exists.
Poll ==
    /\ wpc = "poll"
    /\ FileExists(path_archivos)
    /\ wpc' = "back"
    /\ UNCHANGED <<k, i, path_archivos, validador, archivos_descargados,
                   archivos_omitidos, disk, requested, omitted, attempted,
                   checked, confirmed, escaped>>
    /\ UNCHANGED <<lifevars, loginvars, uservars>>

\* The way back: the primary control, else the alternate control followed by
\* the home link; out = "raise" when the alternate path raises.
Back(out) ==
    /\ wpc = "back"
    /\ wpc' = IF out = "raise" THEN "recover" ELSE "verify"
    /\ UNCHANGED <<k, i, path_archivos, validador, archivos_descargados,
                   archivos_omitidos, disk, requested, omitted, attempted,
                   checked, confirmed, escaped>>
    /\ UNCHANGED <<lifevars, loginvars, uservars>>

\* `if os.path.exists(path_archivos): validador = False; i += 1`, else the
\* loop runs again.
Verify ==
    /\ wpc = "verify"
    /\ IF FileExists(path_archivos)
       THEN validador' = "False" /\ i' = i + 1 /\ confirmed' = confirmed \cup {k}
       ELSE UNCHANGED <<validador, i, confirmed>>
    /\ wpc' = "while"
    /\ UNCHANGED <<k, path_archivos, archivos_descargados, archivos_omitidos,
                   disk, requested, omitted, attempted, checked, escaped>>
    /\ UNCHANGED <<lifevars, loginvars, uservars>>

\* Faulty variant of AfterHomeClick: an exception of the home link click is
\* swallowed and the retry loop runs again.
AfterHomeClickSwallowed(home_ok) == "while"

\* The last statement of the except branch, the click on the home link: the
\* retry loop goes on, or the exception reaches the outer handler of
\* descarga_db, which returns (False, msg).
AfterHomeClick(home_ok) == IF home_ok THEN "while" ELSE "failed"

\* The except branch: when the indicator button is found, validador takes its
\* innerText (found = FALSE: the wait raised, or a later click raised, and
\* the inner except passes); then the home link is clicked, and if that
\* raises the exception leaves both loops and descarga_db returns
\* (False, msg).
Recover(found, text, home_ok) ==
    /\ wpc = "recover"
    /\ validador' = IF found THEN text ELSE validador
    /\ wpc' = AfterHomeClick(home_ok)
    /\ escaped' = (escaped \/ ~home_ok)
    /\ UNCHANGED <<k, i, path_archivos, archivos_descargados, archivos_omitidos,
                   disk, requested, omitted, attempted, checked, confirmed>>
    /\ UNCHANGED <<lifevars, loginvars, uservars>>

\* The browser finishes a download that was requested for label x: the file
\* of entry x is written.  Over a file that is already there the browser
\* either replaces it or writes beside it under another name (replaces =
\* FALSE), which leaves the old file as it was.
FileLands(x, replaces) ==
    /\ x \in requested
    /\ requested' = requested \ {x}
    /\ disk' = IF FileExists(x) /\ ~replaces THEN disk ELSE [disk EXCEPT ![x] = "fresh"]
    /\ UNCHANGED <<wpc, k, i, path_archivos, validador, archivos_descargados,
                   archivos_omitidos, omitted, attempted, checked, confirmed, escaped>>
    /\ UNCHANGED <<lifevars, loginvars, uservars>>

NextDescarga ==
    \/ ForTop
    \/ WhileTop
    \/ \E ok \in BOOLEAN : Navigate(ok)
    \/ Poll
    \/ \E out \in {"primary", "alternate", "raise"} : Back(out)
    \/ Verify
    \/ \E found \in BOOLEAN, text \in InnerTexts, home_ok \in BOOLEAN :
           Recover(found, text, home_ok)
    \/ \E x \in 1..CatalogLen, replaces \in BOOLEAN : FileLands(x, replaces)

SpecDescarga == InitDescarga /\ [][NextDescarga]_vars

\* The next statement of descarga_db: every call it makes returns or raises
\* (the waits are bounded by WebDriverWait), except that the poll goes on
\* only once the file exists.
RunStep ==
    \/ ForTop
    \/ WhileTop
    \/ \E ok \in BOOLEAN : Navigate(ok)
    \/ Poll
    \/ \E out \in {"primary", "alternate", "raise"} : Back(out)
    \/ Verify
    \/ \E found \in BOOLEAN, text \in InnerTexts, home_ok \in BOOLEAN :
           Recover(found, text, home_ok)

\* The worker thread keeps running descarga_db, and the browser finishes
\* every download that was requested.
SpecDescargaLive ==
    /\ SpecDescarga
    /\ WF_vars(RunStep)
    /\ \A x \in 1..CatalogLen : WF_vars(\E replaces \in BOOLEAN : FileLands(x, replaces))

----------------------------------------------------------------------------
\* Login handler followed step by step: login_ariba_driver /
\* login_ariba_driver_m and the body of login_ariba.  The handler has no
\* await and login_ariba is a blocking call, so nothing else runs on the
\* event loop between LoginEnter and LoginReturn.

\* The steps of login_ariba between setup_driver and the marker read, in
\* order: open the page, e-mail field, password field, the 2FA prompt.
LoginSteps == <<"get", "usuario", "clave", "input", "marker">>

StepAfter(pc) == LoginSteps[(CHOOSE x \in 1..(Len(LoginSteps) - 1) : LoginSteps[x] = pc) + 1]

\* What get_attribute('outerText') of the post-login marker can be.
MarkerTexts == {"INICIO", "ERROR"}

\* Faulty variant of MissingCredentials: the lookup result is not tested.
MissingCredentialsIgnored(n) == FALSE

\* `creds = AribaCredentials.get_credentials(name)` followed by `if not creds`.
MissingCredentials(n) == n \notin credentials

\* Faulty variant of DriverInLocals: the except branch never quits.
DriverInLocalsNever(d) == FALSE

\* `if 'driver' in locals()`: setup_driver returned before the exception.
DriverInLocals(d) == d # 0

\* The handler up to the call of login_ariba: HTTPException(404) when the
\* name has no credentials.
LoginEnter(n) ==
    /\ phase = "serving"
    /\ lg.pc = "idle"
    /\ IF MissingCredentials(n)
       THEN /\ ev' = Ev("login_404", n, 0, "")
            /\ UNCHANGED lg
       ELSE /\ lg' = [NoLogin EXCEPT !.pc = "setup", !.name = n]
            /\ ev' = NoEv
    /\ UNCHANGED <<wfvars, credentials, uservars>>
    /\ UNCHANGED <<phase, lifespan_tasks, active_drivers, driver_in_use, refresh_task,
                   drivers, tasks, downloads, closes>>

\* `driver = setup_driver(...)`: a new driver, or an exception before the
\* local variable is bound.
SetupDriver(ok) ==
    /\ lg.pc = "setup"
    /\ IF ok
       THEN /\ FreshDrivers # {}
            /\ LET d == Min(FreshDrivers)
               IN /\ drivers' = [drivers EXCEPT ![d] = "active"]
                  /\ lg' = [lg EXCEPT !.pc = "get", !.drv = d]
       ELSE /\ lg' = [lg EXCEPT !.pc = "except"]
            /\ UNCHANGED drivers
    /\ ev' = NoEv
    /\ UNCHANGED <<wfvars, credentials, uservars>>
    /\ UNCHANGED <<phase, lifespan_tasks, active_drivers, driver_in_use, refresh_task,
                   tasks, downloads, closes>>

\* One of the steps before the marker read; a step that raises goes to the
\* except branch.
LoginStep(ok) ==
    /\ lg.pc \in {"get", "usuario", "clave", "input"}
    /\ lg' = [lg EXCEPT !.pc = IF ok THEN StepAfter(lg.pc) ELSE "except"]
    /\ ev' = NoEv
    /\ UNCHANGED <<wfvars, credentials, uservars>>
    /\ UNCHANGED <<phase, lifespan_tasks, active_drivers, driver_in_use, refresh_task,
                   drivers, tasks, downloads, closes>>

\* The wait for the marker and `if validador == "INICIO"`: the success
\* return, or the else branch.
ReadMarker(text, ok) ==
    /\ lg.pc = "marker"
    /\ lg' = IF ~ok THEN [lg EXCEPT !.pc = "except"]
             ELSE IF text = "INICIO"
                  THEN [lg EXCEPT !.pc = "returned", !.marker = text,
                                  !.ret = lg.drv, !.success = TRUE]
                  ELSE [lg EXCEPT !.pc = "quit_else", !.marker = text]
    /\ ev' = NoEv
    /\ UNCHANGED <<wfvars, credentials, uservars>>
    /\ UNCHANGED <<phase, lifespan_tasks, active_drivers, driver_in_use, refresh_task,
                   drivers, tasks, downloads, closes>>

\* The else branch: `driver.quit()` then `return None, False, msg`; a quit
\* that raises goes to the except branch.
QuitElse(raises) ==
    /\ lg.pc = "quit_else"
    /\ IF raises
       THEN /\ drivers' = [drivers EXCEPT ![lg.drv] = "quit_failed"]
            /\ lg' = [lg EXCEPT !.pc = "except"]
       ELSE /\ drivers' = [drivers EXCEPT ![lg.drv] = "quit"]
            /\ lg' = [lg EXCEPT !.pc = "returned", !.ret = 0, !.success = FALSE]
    /\ ev' = NoEv
    /\ UNCHANGED <<wfvars, credentials, uservars>>
    /\ UNCHANGED <<phase, lifespan_tasks, active_drivers, driver_in_use, refresh_task,
                   tasks, downloads, closes>>

\* `except Exception`: quit the driver if there is one, then
\* `return None, False, msg`; a quit that raises here leaves login_ariba and
\* the handler with the exception.
Except(raises) ==
    /\ lg.pc = "except"
    /\ IF DriverInLocals(lg.drv)
       THEN IF raises
            THEN /\ drivers' = [drivers EXCEPT ![lg.drv] = "quit_failed"]
                 /\ lg' = [lg EXCEPT !.pc = "raised"]
            ELSE /\ drivers' = [drivers EXCEPT ![lg.drv] = "quit"]
                 /\ lg' = [lg EXCEPT !.pc = "returned", !.ret = 0, !.success = FALSE]
       ELSE /\ lg' = [lg EXCEPT !.pc = "returned", !.ret = 0, !.success = FALSE]
            /\ UNCHANGED drivers
    /\ ev' = NoEv
    /\ UNCHANGED <<wfvars, credentials, uservars>>
    /\ UNCHANGED <<phase, lifespan_tasks, active_drivers, driver_in_use, refresh_task,
                   tasks, downloads, closes>>

\* The handler after login_ariba: on success the driver is registered and
\* the keep-alive task created if there is none; otherwise HTTP 500.
LoginReturn ==
    /\ lg.pc \in {"returned", "raised"}
    /\ IF lg.pc = "returned" /\ lg.success
       THEN /\ active_drivers' = [active_drivers EXCEPT ![lg.name] = lg.ret]
            /\ IF ShouldStartTask
               THEN /\ FreshTasks # {}
                    /\ LET t == Min(FreshTasks)
                       IN /\ tasks' = [tasks EXCEPT ![t] =
                                 [NoTask EXCEPT !.st = "sleep", !.name = lg.name]]
                          /\ refresh_task' = t
               ELSE UNCHANGED <<tasks, refresh_task>>
            /\ ev' = Ev("login", lg.name, 0, "ok")
       ELSE /\ ev' = Ev("login_500", lg.name, lg.drv, lg.pc)
            /\ UNCHANGED <<active_drivers, tasks, refresh_task>>
    /\ lg' = NoLogin
    /\ UNCHANGED <<wfvars, credentials, uservars>>
    /\ UNCHANGED <<phase, lifespan_tasks, driver_in_use, drivers, downloads, closes>>

\* Any credential table; the server is up or coming up.
InitLogin ==
    /\ InitLife
    /\ WorkflowIdle
    /\ UsersIdle
    /\ credentials \in SUBSET Names
    /\ lg = NoLogin

\* The login steps, and between two logins the close handler and the
\* cancelled task's exit.
NextLogin ==
    \/ \E n \in Names : LoginEnter(n)
    \/ \E ok \in BOOLEAN : SetupDriver(ok)
    \/ \E ok \in BOOLEAN : LoginStep(ok)
    \/ \E text \in MarkerTexts, ok \in BOOLEAN : ReadMarker(text, ok)
    \/ \E raises \in BOOLEAN : QuitElse(raises)
    \/ \E raises \in BOOLEAN : Except(raises)
    \/ LoginReturn
    \/ (lg.pc = "idle" /\ Startup)
    \/ (lg.pc = "idle" /\ \E c \in CloseIds, n \in Names, raises \in BOOLEAN :
                               CloseBegin(c, n, raises))
    \/ (lg.pc = "idle" /\ \E c \in CloseIds : CloseResume(c))
    \/ (lg.pc = "idle" /\ \E t \in TaskIds : TaskCancelled(t))

SpecLogin == InitLogin /\ [][NextLogin]_vars

----------------------------------------------------------------------------
\* User accounts: register, 2FA activation, login, the protected user list
\* (app/crud/user.py, app/utils/auth.py, app/utils/totp.py and the account
\* endpoints of endpoints.py).  A request reads and writes the table through
\* its own session and one commit: one request is one step.

MaxUsers == 2        \* rows of the table `users`
MaxTokens == 2       \* access tokens issued
MaxNow == 45         \* last instant of the clock
ClockStep == 15      \* minutes between two instants of the clock
ACCESS_TOKEN_EXPIRE_MINUTES == 30

Emails == {"a@x", "b@x"}
Passwords == {"pw1", "pw2"}
Secrets == {"S1"}
\* The totp_code of a login request; "" stands for an absent or empty code.
Codes == {"", "111", "222"}

\* pwd_context.hash: the stored value is not the password; the salt, which
\* makes two hashes of one password differ, is left out.
get_password_hash(password) == [scheme |-> "bcrypt", of |-> password]

\* pwd_context.verify
verify_password(plain_password, hashed_password) ==
    hashed_password = [scheme |-> "bcrypt", of |-> plain_password]

\* pyotp.TOTP(secret).now(): the code changes with the clock.
TotpAt(secret, t) == IF (t \div ClockStep) % 2 = 0 THEN "111" ELSE "222"

\* verify_totp_code(secret, code)
verify_totp_code(secret, code) == code = TotpAt(secret, now)

\* get_user_by_email: the id of the row with that e-mail, 0 for None.
get_user_by_email(email) ==
    IF \E u \in DOMAIN users : users[u].email = email
    THEN CHOOSE u \in DOMAIN users : users[u].email = email
    ELSE 0

\* Faulty variant of login_user: the TOTP code is not asked for.
login_user_without_totp(email, password, totp_code) ==
    LET u == get_user_by_email(email)
    IN IF u = 0 THEN 0
       ELSE IF ~verify_password(password, users[u].password) THEN 0
       ELSE u

\* login_user: the id of the user, 0 for None.
login_user(email, password, totp_code) ==
    LET u == get_user_by_email(email)
    IN IF u = 0 THEN 0
       ELSE IF ~verify_password(password, users[u].password) THEN 0
       ELSE IF users[u].totp_secret # ""
               /\ (totp_code = "" \/ ~verify_totp_code(users[u].totp_secret, totp_code))
            THEN 0
       ELSE u

\* create_access_token({"sub": email}): signed, expiring after
\* ACCESS_TOKEN_EXPIRE_MINUTES.
create_access_token(email) ==
    [sub |-> email, exp |-> now + ACCESS_TOKEN_EXPIRE_MINUTES, sig |-> "HS256"]

\* Tokens not signed with SECRET_KEY.
ForgedTokens == {[sub |-> e, exp |-> MaxNow, sig |-> "other"] : e \in Emails}

\* decode_access_token: the payload, or None (FALSE) when the signature or
\* the expiry is not valid.
decode_access_token(token) == token.sig = "HS256" /\ token.exp >= now

\* get_current_user: the id of the authenticated user, 0 when it raises 401.
get_current_user(token) ==
    IF ~decode_access_token(token) THEN 0 ELSE get_user_by_email(token.sub)

\* POST /register
Register(email, password) ==
    /\ IF get_user_by_email(email) # 0
       THEN /\ uev' = [NoUev EXCEPT !.op = "register", !.email = email,
                                    !.pw = password, !.status = 400]
            /\ UNCHANGED users
       ELSE /\ Len(users) < MaxUsers
            /\ users' = Append(users, [email |-> email,
                                       password |-> get_password_hash(password),
                                       totp_secret |-> ""])
            /\ uev' = [NoUev EXCEPT !.op = "register", !.email = email,
                                    !.pw = password, !.status = 200]
    /\ UNCHANGED <<now, tokens>>
    /\ UNCHANGED <<lifevars, wfvars, loginvars>>

\* POST /users/{user_id}/2fa/activate
Activate2FA(user_id, secret) ==
    /\ IF user_id \notin DOMAIN users
       THEN /\ uev' = [NoUev EXCEPT !.op = "activate", !.status = 404]
            /\ UNCHANGED users
       ELSE /\ users' = [users EXCEPT ![user_id].totp_secret = secret]
            /\ uev' = [NoUev EXCEPT !.op = "activate", !.status = 200,
                                    !.email = users[user_id].email]
    /\ UNCHANGED <<now, tokens>>
    /\ UNCHANGED <<lifevars, wfvars, loginvars>>

\* POST /login
LoginUser(email, password, totp_code) ==
    /\ LET u == login_user(email, password, totp_code)
           req == [NoUev EXCEPT !.op = "login", !.email = email, !.pw = password,
                                !.code = totp_code]
       IN IF u = 0
          THEN /\ uev' = [req EXCEPT !.status = 401]
               /\ UNCHANGED tokens
          ELSE LET token == create_access_token(users[u].email)
               IN /\ Cardinality(tokens \cup {token}) <= MaxTokens
                  /\ tokens' = tokens \cup {token}
                  /\ uev' = [req EXCEPT !.status = 200, !.tok = token]
    /\ UNCHANGED <<users, now>>
    /\ UNCHANGED <<lifevars, wfvars, loginvars>>

\* GET /users with the bearer token `token`
ReadUsers(token) ==
    /\ token \in tokens \cup ForgedTokens
    /\ uev' = [NoUev EXCEPT !.op = "users", !.tok = token,
                            !.status = IF get_current_user(token) = 0 THEN 401 ELSE 200]
    /\ UNCHANGED <<users, now, tokens>>
    /\ UNCHANGED <<lifevars, wfvars, loginvars>>

\* PUT /users/{user_id} changing the e-mail, with the bearer token `token`:
\* 401 without a valid token, 404 for an unknown id, and the unique
\* constraint of the column makes the commit fail when the e-mail is taken.
UpdateEmail(token, user_id, email) ==
    /\ token \in tokens \cup ForgedTokens
    /\ LET req == [NoUev EXCEPT !.op = "update", !.tok = token, !.email = email]
       IN IF get_current_user(token) = 0
          THEN uev' = [req EXCEPT !.status = 401] /\ UNCHANGED users
          ELSE IF user_id \notin DOMAIN users
          THEN uev' = [req EXCEPT !.status = 404] /\ UNCHANGED users
          ELSE IF get_user_by_email(email) \notin {0, user_id}
          THEN uev' = [req EXCEPT !.status = 500] /\ UNCHANGED users
          ELSE /\ users' = [users EXCEPT ![user_id].email = email]
               /\ uev' = [req EXCEPT !.status = 200]
    /\ UNCHANGED <<now, tokens>>
    /\ UNCHANGED <<lifevars, wfvars, loginvars>>

\* Time passes.
ClockTick ==
    /\ now < MaxNow
    /\ now' = now + ClockStep
    /\ uev' = NoUev
    /\ UNCHANGED <<users, tokens>>
    /\ UNCHANGED <<lifevars, wfvars, loginvars>>

NextUsers ==
    \/ \E e \in Emails, pw \in Passwords : Register(e, pw)
    \/ \E u \in 1..MaxUsers, sec \in Secrets : Activate2FA(u, sec)
    \/ \E e \in Emails, pw \in Passwords, c \in Codes : LoginUser(e, pw, c)
    \/ \E tk \in tokens \cup ForgedTokens : ReadUsers(tk)
    \/ \E tk \in tokens \cup ForgedTokens, u \in 1..MaxUsers, e \in Emails :
           UpdateEmail(tk, u, e)
    \/ ClockTick

SpecUsers == Init /\ [][NextUsers]_vars

----------------------------------------------------------------------------
\* Properties

LiveTasks == {t \in TaskIds : TaskAlive(t)}

LiveTasksOf(n) == {t \in LiveTasks : tasks[t].name = n}

\* driver.quit() has been called on driver d.
QuitInvoked(d) == drivers[d] \in {"quit", "quit_failed"}

\* C1: when a download request that set the usage gate returns -- with the
\* success response, or with HTTP 500 after descarga_db reported a failure
\* (an exception raised mid-run included) -- driver_in_use is clear.
C1_GateClearAfterDownload ==
    ev.op = "download_return" => ~driver_in_use

\* C1 witness: a download whose run failed has returned, and the gate is clear.
C1_Witness ==
    ev.op = "download_return" /\ ev.res = "500" /\ ~driver_in_use

\* C2: a keep-alive tick that finds the usage gate busy starts no navigation
\* and raises no error, and its task is back at the interval sleep, whatever
\* session name the task serves.
C2_BusyTickSkips ==
    (ev.op = "tick" /\ driver_in_use) =>
        /\ ev.res \in {"absent", "busy"}
        /\ tasks[ev.id].st = "sleep"
        /\ tasks[ev.id].drv = 0

\* C2 witness: the task serving driver_m skipped its tick because of the gate
\* while a download run was driving the driver of session driver.
C2_Witness ==
    /\ ev.op = "tick" /\ ev.res = "busy" /\ ev.name = "driver_m"
    /\ tasks[ev.id].st = "sleep"
    /\ \E p \in DOMAIN downloads : downloads[p].pc = "running"

\* C3: no keep-alive tick is between its two navigations on a driver while a
\* download run is driving that same driver.
C3_OneOperationPerHandle ==
    \A t \in TaskIds : \A p \in DOMAIN downloads :
        ~(tasks[t].st = "wait1" /\ downloads[p].pc = "running"
          /\ downloads[p].drv = tasks[t].drv)

\* C4: when close_driver(name) ends, the registry does not contain the name
\* and no keep-alive task serving the name is alive.
C4_CloseLeavesNothing ==
    ev.op \in {"close_return", "close_500"} =>
        /\ active_drivers[ev.name] = 0
        /\ LiveTasksOf(ev.name) = {}

\* C5: after a successful login for a name, a keep-alive task serving that
\* name is running.
C5_LoginStartsKeepAlive ==
    (ev.op = "login" /\ ev.res = "ok") =>
        \E t \in LiveTasksOf(ev.name) : ~tasks[t].cancel

\* C6: at most one keep-alive task is alive per session name.
C6_OneTaskPerName ==
    \A n \in Names : Cardinality(LiveTasksOf(n)) <= 1

\* C7: the label used to locate the UI link and the file name used for the
\* freshness and existence checks have the same catalog index: every
\* navigation pairs a label with its own file, and at the top of the for
\* loop the index i is the position of the label about to be processed.
C7_PositionalIntegrity ==
    /\ \A pr \in attempted : pr[1] = pr[2]
    /\ (wpc = "for" /\ k <= CatalogLen) => lista_rutas[i + 1] = lista_csv[k]

\* C8: the retry loop of an entry is left only on success, so the workflow
\* is at a later entry, or has reported success, only when the target file
\* of every earlier entry that was not omitted is on disk.
C8_AdvanceOnlyOnSuccess ==
    wpc \in {"for", "done"} =>
        \A x \in 1..(k - 1) : x \notin omitted => FileExists(lista_rutas[x])

\* C9: whenever close_driver has invoked driver.quit, the keep-alive task
\* has already exited.
C9_TaskExitBeforeQuit ==
    (ev.op \in {"close_await", "close_return", "close_500"} /\ ev.id # 0) =>
        (refresh_task = 0 \/ TaskDone(refresh_task))

\* C10: a driver.quit that raises prevents no cleanup: after such a close the
\* name is out of the registry and the keep-alive task is cancelled and has
\* exited; after shutdown quit was invoked on every registered driver.
C10_TeardownFailureStillCleans ==
    /\ ev.op = "close_500" =>
           /\ active_drivers[ev.name] = 0
           /\ (refresh_task = 0 \/ TaskDone(refresh_task))
    /\ ev.op = "shutdown" =>
           \A n \in Names : active_drivers[n] # 0 => QuitInvoked(active_drivers[n])

\* C11: every driver that is active is the registry's current entry for some
\* name: a login for a name that already has an active driver quits the prior
\* driver before it registers the new one.
C11_OneActiveHandlePerName ==
    \A d \in DriverIds :
        drivers[d] = "active" => \E n \in Names : active_drivers[n] = d

\* C12: whenever login_ariba returns failure -- the marker text is not the
\* sentinel, or a step raised after the driver was created -- the handle it
\* returns is None and the driver created during the call has been quit.
C12_FailedLoginLeaksNoDriver ==
    (lg.pc = "returned" /\ ~lg.success) =>
        /\ lg.ret = 0
        /\ lg.drv # 0 => drivers[lg.drv] = "quit"

\* C12 witness: login_ariba read the marker "ERROR" on a driver it created,
\* and returned failure with that driver quit.
C12_Witness ==
    /\ lg.pc = "returned" /\ ~lg.success /\ lg.marker = "ERROR"
    /\ lg.drv # 0 /\ drivers[lg.drv] = "quit" /\ lg.ret = 0

\* C17: a login for a name that has no stored credentials ends at once with
\* the error: login_ariba is not entered (so no driver is created), the
\* registry and the keep-alive tasks are as they were, and the handler is
\* finished.
C17_NoCredentialsNoSession ==
    [][/\ ev'.op = "login_404" =>
              /\ UNCHANGED <<drivers, active_drivers, tasks, refresh_task>>
              /\ lg'.pc = "idle"
       /\ (lg.pc = "idle" /\ lg'.pc # "idle") => lg'.name \in credentials]_vars

\* C17 witness: a login for a name without credentials was answered 404 after
\* an earlier login for the other name had created a session.
C17_Witness ==
    /\ ev.op = "login_404" /\ ev.name \notin credentials /\ lg.pc = "idle"
    /\ \E n \in Names : active_drivers[n] # 0

\* The labels a navigation was started for.
AttemptedLabels == {pr[1] : pr \in attempted}

\* C13: an entry whose own target file was fresh when the loop decided about
\* it is omitted and no navigation is started for its label; an entry whose
\* file was absent or of an earlier day is not omitted and, once the loop is
\* past it, a navigation was started for its label.
C13_FreshnessCheck ==
    \A x \in 1..CatalogLen :
        /\ checked[x] = "fresh" => (x \in omitted /\ x \notin AttemptedLabels)
        /\ checked[x] \in {"absent", "stale"} =>
               /\ x \notin omitted
               /\ k > x => x \in AttemptedLabels

\* C14: when the run returns success, archivos_omitidos is the number of
\* entries omitted by the freshness check, archivos_descargados is the number
\* of entries whose download was confirmed, the two sum to the catalog length,
\* and no navigation was started for an omitted entry.
C14_CountsOnSuccess ==
    wpc = "done" =>
        /\ archivos_omitidos = Cardinality(omitted)
        /\ archivos_descargados = Cardinality(confirmed)
        /\ archivos_omitidos + archivos_descargados = CatalogLen
        /\ AttemptedLabels \cap omitted = {}

\* C15: an exception that leaves the retry loop ends the run with the failure
\* result, and from then on no entry is checked, navigated to or counted.
C15_FailFast ==
    [][/\ escaped' => wpc' = "failed"
       /\ wpc = "failed" =>
              UNCHANGED <<wpc, k, i, path_archivos, validador, attempted, omitted,
                          checked, confirmed, archivos_descargados,
                          archivos_omitidos>>]_vars

\* C15 witness: the run failed on an entry before the last, and no later
\* entry was checked or navigated to.
C15_Witness ==
    /\ wpc = "failed" /\ escaped /\ k < CatalogLen
    /\ \A x \in (k + 1)..CatalogLen : checked[x] = "none" /\ x \notin AttemptedLabels

\* C16: a keep-alive task ends only by cancellation: a task that is alive and
\* has no cancellation pending is alive after every step (ticks, skipped
\* ticks, navigation errors); and a step in which a navigation raises changes
\* nothing but the task itself.
C16_TaskEndsOnlyByCancel ==
    [][/\ \A t \in TaskIds :
              (TaskAlive(t) /\ ~tasks[t].cancel /\ t \notin lifespan_tasks) =>
                  tasks'[t].st \notin {"unborn", "done"}
       /\ (ev'.op \in {"tick", "nav2"} /\ ev'.res = "error") =>
              UNCHANGED <<phase, active_drivers, driver_in_use, refresh_task,
                          drivers, downloads, closes>>]_vars

\* C16 witness: the second navigation of a tick raised, and the task is alive,
\* waiting out the back-off.
C16_Witness ==
    /\ ev.op = "nav2" /\ ev.res = "error"
    /\ tasks[ev.id].st = "backoff" /\ ~tasks[ev.id].cancel

\* C18: a tick that finds its name absent from the registry navigates
\* nothing and leaves its task at the interval sleep; a tick that finds its
\* name registered and the gate free starts a navigation.
C18_AbsentTickSkips ==
    /\ (ev.op = "tick" /\ ev.res = "absent") =>
           /\ active_drivers[ev.name] = 0
           /\ tasks[ev.id].st = "sleep"
           /\ tasks[ev.id].drv = 0
    /\ (ev.op = "tick" /\ active_drivers[ev.name] # 0 /\ ~driver_in_use) =>
           ev.res \in {"go", "error"}

\* C18 witness: a task skipped its tick because its name was not registered,
\* and is alive at the interval sleep.
C18_Witness ==
    /\ ev.op = "tick" /\ ev.res = "absent" /\ active_drivers[ev.name] = 0
    /\ tasks[ev.id].st = "sleep" /\ ~tasks[ev.id].cancel

\* C19: a successful login that finds no keep-alive task, or a finished one,
\* creates a new task for its name, alive and not cancelled; when no task was
\* alive before (login, close, login) it is the only one alive.
C19_LoginAfterFinishedTask ==
    [][(ev'.op = "login" /\ ev'.res = "ok"
        /\ (refresh_task = 0 \/ TaskDone(refresh_task))) =>
           /\ refresh_task' # 0
           /\ tasks'[refresh_task'].st = "sleep"
           /\ tasks'[refresh_task'].name = ev'.name
           /\ ~tasks'[refresh_task'].cancel
           /\ LiveTasks = {} => LiveTasks' = {refresh_task'}]_vars

\* C19 witness: close_driver cancelled the task and the task has finished;
\* the login that followed created a new task, the only one alive.
C19_Witness ==
    /\ ev.op = "login" /\ ev.res = "ok"
    /\ \E c \in CloseIds : closes[c].pc = "awaiting" /\ TaskDone(closes[c].task)
                           /\ refresh_task # closes[c].task
    /\ refresh_task # 0 /\ LiveTasks = {refresh_task}
    /\ tasks[refresh_task].name = ev.name

\* What the claim says login must decide: the e-mail names a user, the
\* password is the one stored, and the user has no TOTP secret or the request
\* carries the code valid now.
LoginShouldSucceed(email, password, totp_code) ==
    \E u \in DOMAIN users :
        /\ users[u].email = email
        /\ users[u].password = get_password_hash(password)
        /\ \/ users[u].totp_secret = ""
           \/ totp_code # "" /\ totp_code = TotpAt(users[u].totp_secret, now)

C21_RecoveryKeepsPosition ==
    [][(wpc = "recover" /\ wpc' = "while") =>
           /\ i' = i /\ k' = k /\ path_archivos' = path_archivos
           /\ Truthy(validador')]_vars

NavigationAttempt(t) == ev.op = "tick" /\ ev.id = t /\ ev.res \in {"go", "error"}

\* From here on nothing keeps task t from navigating: it is alive and not
\* cancelled, its session is registered and the gate is clear.
Unhindered(t) ==
    /\ TaskAlive(t) /\ ~tasks[t].cancel
    /\ active_drivers[tasks[t].name] # 0
    /\ ~driver_in_use

\* C23: a task that is waiting out the back-off after a navigation error
\* comes back to the interval sleep unless it is cancelled first; and if
\* from some point on the task is not cancelled, its session stays registered
\* and the gate stays clear, its ticks attempt the navigation again and again.
C23_BackoffLeadsToRunning ==
    \A t \in TaskIds :
        /\ (tasks[t].st = "backoff") ~> (tasks[t].st = "sleep" \/ tasks[t].cancel)
        /\ <>[]Unhindered(t) => []<>NavigationAttempt(t)

\* C23 witness: a task has come back from the back-off to the interval sleep,
\* with its session registered and the gate clear.
C23_Witness ==
    /\ ev.op = "resume" /\ tasks[ev.id].st = "sleep" /\ Unhindered(ev.id)

\* C24: the usage gate is busy in every state in which the run of some
\* download request is queued or executing, also when another request has
\* ended meanwhile.
C24_GateBusyWhileAnyRun ==
    (\E p \in DOMAIN downloads : downloads[p].pc \in {"queued", "running"}) =>
        driver_in_use

\* C25: no step invokes driver.quit on a driver that a download run is
\* driving.
C25_NoTeardownDuringRun ==
    [][\A d \in DriverIds :
           (/\ ~QuitInvoked(d)
            /\ \E p \in DOMAIN downloads :
                   downloads[p].pc = "running" /\ downloads[p].drv = d) =>
               drivers'[d] \notin {"quit", "quit_failed"}]_vars

\* C26: when the run returns success the target file of every entry is
\* fresh; and an entry whose file was stale at the freshness check is marked
\* downloaded only when a new file has landed in its place.
C26_SuccessMeansFresh ==
    /\ wpc = "done" => \A x \in 1..CatalogLen : disk[lista_rutas[x]] = "fresh"
    /\ \A x \in confirmed : checked[x] = "stale" => disk[lista_rutas[x]] = "fresh"

\* C27: a step of close_driver(name) leaves the registry entry of every
\* other name as it was and does nothing to a keep-alive task that serves
\* another name.
C27_CloseAffectsOnlyItsName ==
    [][ev'.op \in {"close_await", "close_return", "close_500"} =>
           /\ \A n \in Names \ {ev'.name} : active_drivers'[n] = active_drivers[n]
           /\ \A t \in TaskIds : tasks[t].name # ev'.name => tasks'[t] = tasks[t]]_vars

\* C28: no keep-alive step calls driver.get on a driver on which driver.quit
\* has been invoked: neither the first navigation of a tick, on the driver
\* the registry holds for the task's name, nor the second, on the driver the
\* task read at the start of the iteration.
C28_NoNavigationAfterQuit ==
    [][/\ (ev'.op = "tick" /\ ev'.res \in {"go", "error"}) =>
              ~QuitInvoked(active_drivers[ev'.name])
       /\ (ev'.op = "nav2" /\ ev'.res \in {"ok", "error"}) =>
              ~QuitInvoked(tasks[ev'.id].drv)]_vars

\* C29: when the shutdown part of lifespan has quit the registered drivers,
\* no keep-alive task is alive: every task, one created by a login included,
\* was cancelled and has exited.
C29_ShutdownCancelsEveryTask ==
    ev.op = "shutdown" => LiveTasks = {}

\* C30: every run of descarga_db ends, with the success or the failure
\* result: it does not stay in the file-appearance poll or in the retry loop
\* of an entry for ever.
C30_RunEnds ==
    <>(wpc \in {"done", "failed"})

=============================================================================
